---- MODULE Spec2Model ----
(***************************************************************************)
(* Model of the two FastAPI services of the repository:                    *)
(*   src/1.py  medical_qa_deployment.py       POST /answer,    GET /health *)
(*   src/2.py  medical_summary_deployment.py  POST /summarize, GET /health *)
(* One process is modelled; which of the two modules uvicorn imports is    *)
(* chosen in Init.  The process first runs the module-level model load,    *)
(* then serves requests on a single asyncio event loop.                    *)
(***************************************************************************)
EXTENDS Integers, Sequences, FiniteSets, TLC

VARIABLES service, phase, handle, req

vars == <<service, phase, handle, req>>

(* ------------------------------ bounds -------------------------------- *)

\* Number of requests a run of the process receives.
MaxRequests == 2

(* ------------------------- program constants -------------------------- *)

\* SummaryRequest.max_length default.
DefaultMaxLength == 150

\* SummaryRequest.min_length default.
DefaultMinLength == 50

(* --------------------------- value domains ---------------------------- *)

\* Optional[T]: None is the empty set, a value v is {v}.
None == {}

Some(v) == {v}

Get(o) == CHOOSE v \in o : TRUE

\* Strings a client sends as question, context or text.
Texts == {"", "a", "b"}

\* What a client may put in max_length / min_length once the field is
\* present in the JSON body: null or an integer.
Lengths == {None, Some(DefaultMinLength), Some(DefaultMaxLength)}

\* A JSON body field: absent, or present with a value.
Absent == [present |-> FALSE, value |-> None]

Present(v) == [present |-> TRUE, value |-> v]

LengthFields == {Absent} \cup {Present(v) : v \in Lengths}

\* Results the question-answering pipeline can return: {"answer", "score"}.
QAResults == {[answer |-> "x", score |-> 89], [answer |-> "y", score |-> 12]}

\* Results the summarization pipeline can return: [{"summary_text": s}].
SummaryResults == {<<[summary_text |-> "s1"]>>, <<[summary_text |-> "s2"]>>}

\* An exception object: its class and the positional args BaseException keeps.
Exc(cls, args) == [cls |-> cls, args |-> args]

\* Exceptions the inference library raises from a pipeline call.
PipelineErrors == {Exc("RuntimeError", <<"CUDA out of memory">>)}

\* Exceptions the loaders raise at import time.
LoadErrors == {Exc("OSError", <<"model not found">>)}

Slots == 1 .. MaxRequests

(* ------------------------ pure parts of the code ---------------------- *)

\* fastapi.HTTPException(status_code=..., detail=...): built with keyword
\* arguments only, so BaseException.args is the empty tuple (fastapi 0.68.1).
HTTPException(code, detail) ==
    [cls |-> "HTTPException", args |-> <<>>, status_code |-> code, detail |-> detail]

\* str(e) of an exception: "" without args, the argument with one.
StrOf(e) == IF Len(e.args) = 0 THEN "" ELSE e.args[1]

\* Python truthiness of a str: `not s`.
Not(s) == s = ""

TypeName(o) == IF o = None THEN "NoneType" ELSE "int"

\* Python 2 ordering: None sorts before every int and never raises.
LtPy2(a, b) ==
    [raised |-> FALSE,
     value  |-> IF a = None THEN b # None
                ELSE IF b = None THEN FALSE ELSE Get(a) < Get(b)]

\* Python 3 `a < b` on Optional[int]: raises TypeError when either is None.
Lt(a, b) ==
    IF a = None \/ b = None
    THEN [raised |-> TRUE,
          exc |-> Exc("TypeError",
                      <<"'<' not supported between instances of '" \o TypeName(a)
                        \o "' and '" \o TypeName(b) \o "'">>)]
    ELSE [raised |-> FALSE, value |-> Get(a) < Get(b)]

\* pydantic construction of QARequest from the JSON body.
QARequest(question, context) == [question |-> question, context |-> context]

\* pydantic construction of SummaryRequest: an absent field takes the default.
SummaryRequest(text, maxf, minf) ==
    [text       |-> text,
     max_length |-> IF maxf.present THEN maxf.value ELSE Some(DefaultMaxLength),
     min_length |-> IF minf.present THEN minf.value ELSE Some(DefaultMinLength)]

\* Validation that requires both fields empty before it rejects.
QAValidateBoth(question, context) ==
    IF Not(question) /\ Not(context)
    THEN Some(HTTPException(400, "Question and context are required"))
    ELSE None

\* answer_question, "Validate input": the exception raised, or None.
QAValidate(question, context) ==
    IF Not(question) \/ Not(context)
    THEN Some(HTTPException(400, "Question and context are required"))
    ELSE None

\* summarize_text, "Validate input": the exception raised, or None.
SummaryValidate(text, max_length, min_length) ==
    IF Not(text)
    THEN Some(HTTPException(400, "Text is required"))
    ELSE LET c == Lt(max_length, min_length) IN
         IF c.raised THEN Some(c.exc)
         ELSE IF c.value
              THEN Some(HTTPException(400, "max_length must be greater than min_length"))
              ELSE None

\* A handler that hides the exception text from the client.
ExceptHandlerSanitized(e) == HTTPException(500, "Internal Server Error")

\* `except Exception as e: raise HTTPException(status_code=500, detail=str(e))`
ExceptHandler(e) == HTTPException(500, StrOf(e))

\* FastAPI's rendering of an HTTPException that leaves the handler.
Render(exc) == [status_code |-> exc.status_code, body |-> [detail |-> exc.detail]]

\* FastAPI's rendering of a returned dict.
Ok(body) == [status_code |-> 200, body |-> body]

\* A return statement that copies the wrong value into "question".
AnswerReturnSwapped(question, result) ==
    [status |-> "success", question |-> result.answer,
     answer |-> result.answer, confidence |-> result.score]

\* answer_question's return dict.
AnswerReturn(question, result) ==
    [status |-> "success", question |-> question,
     answer |-> result.answer, confidence |-> result.score]

\* summarize_text's return dict, summary == summarizer(...)[0]["summary_text"].
SummaryReturn(text, result) ==
    [status |-> "success", original_text |-> text, summary |-> result[1].summary_text]

Failed(r) == Len(req[r].sent) > 0 /\ req[r].sent[1].status_code # 200

\* A health body that reports earlier failures.
HealthReturnDegraded ==
    [status |-> IF \E r \in Slots : Failed(r) THEN "degraded" ELSE "healthy"]

\* health_check's return dict.
HealthReturn == [status |-> "healthy"]

(* ------------------------------ state --------------------------------- *)

\* A request slot no request has used yet.
NoRequest ==
    [kind |-> "none", args |-> <<>>, pc |-> "none", calls |-> 0,
     outcome |-> None, sent |-> <<>>]

NewRequest(kind, args) ==
    [kind |-> kind, args |-> args, pc |-> "queued", calls |-> 0,
     outcome |-> None, sent |-> <<>>]

\* The handler of request r ends by sending response resp.
Finish(r, resp) ==
    req' = [req EXCEPT ![r].pc = "done", ![r].sent = Append(@, resp)]

\* The handler of request r enters the blocking pipeline call.
CallPipeline(r) ==
    req' = [req EXCEPT ![r].pc = "infer", ![r].calls = @ + 1]

Init ==
    /\ service \in {"qa", "summary"}
    /\ phase = "tokenizer"
    /\ handle = "unbound"
    /\ req = [r \in Slots |-> NoRequest]

(* ---------------------------- model load ------------------------------ *)

NextPhase(p) ==
    CASE p = "tokenizer" -> "model"
      [] p = "model"     -> "pipeline"
      [] p = "pipeline"  -> "serving"

Loading == phase \in {"tokenizer", "model", "pipeline"}

\* One of from_pretrained / from_pretrained / pipeline(...) returns.
LoadStep ==
    /\ Loading
    /\ phase' = NextPhase(phase)
    /\ handle' = IF phase = "pipeline" THEN "loaded" ELSE handle
    /\ UNCHANGED <<service, req>>

\* A load failure that is logged and swallowed: the server starts anyway.
LoadRaisesSwallowed(e) ==
    /\ Loading
    /\ phase' = "serving"
    /\ UNCHANGED <<service, handle, req>>

\* One of the three load calls raises: logged, then re-raised by the bare
\* `raise`, so the import fails and uvicorn exits.
LoadRaises(e) ==
    /\ Loading
    /\ phase' = "crashed"
    /\ UNCHANGED <<service, handle, req>>

(* ------------------------------ requests ------------------------------ *)

\* Requests take the slots in order.
FreeSlot(r) ==
    /\ phase = "serving"
    /\ req[r].pc = "none"
    /\ \A q \in Slots : q < r => req[q].pc # "none"

ArriveAnswer(r, question, context) ==
    /\ service = "qa"
    /\ FreeSlot(r)
    /\ req' = [req EXCEPT ![r] = NewRequest("answer", QARequest(question, context))]
    /\ UNCHANGED <<service, phase, handle>>

ArriveSummarize(r, text, maxf, minf) ==
    /\ service = "summary"
    /\ FreeSlot(r)
    /\ req' = [req EXCEPT ![r] = NewRequest("summarize", SummaryRequest(text, maxf, minf))]
    /\ UNCHANGED <<service, phase, handle>>

ArriveHealth(r) ==
    /\ FreeSlot(r)
    /\ req' = [req EXCEPT ![r] = NewRequest("health", <<>>)]
    /\ UNCHANGED <<service, phase, handle>>

\* Handlers run as plain functions in a thread pool: never blocked by others.
LoopIdleThreaded == TRUE

\* The handlers are `async def` and never await: the event loop runs one
\* handler at a time and is blocked while a pipeline call is in progress.
LoopIdle == \A q \in Slots : req[q].pc \notin {"infer", "hung"}

Dispatchable(r, kind) ==
    /\ phase = "serving"
    /\ req[r].kind = kind
    /\ req[r].pc = "queued"
    /\ LoopIdle

\* The name of the pipeline is unbound: calling it raises NameError.
Unbound(name) == Exc("NameError", <<"name '" \o name \o "' is not defined">>)

\* POST /answer, from the handler's entry to the pipeline call (or to the
\* response, when validation raises).
answer_question(r) ==
    /\ Dispatchable(r, "answer")
    /\ LET v == QAValidate(req[r].args.question, req[r].args.context) IN
       IF v # None THEN Finish(r, Render(ExceptHandler(Get(v))))
       ELSE IF handle # "loaded"
            THEN Finish(r, Render(ExceptHandler(Unbound("qa_pipeline"))))
            ELSE CallPipeline(r)
    /\ UNCHANGED <<service, phase, handle>>

\* POST /summarize, from the handler's entry to the pipeline call (or to the
\* response, when validation raises).
summarize_text(r) ==
    /\ Dispatchable(r, "summarize")
    /\ LET a == req[r].args
           v == SummaryValidate(a.text, a.max_length, a.min_length) IN
       IF v # None THEN Finish(r, Render(ExceptHandler(Get(v))))
       ELSE IF handle # "loaded"
            THEN Finish(r, Render(ExceptHandler(Unbound("summarizer"))))
            ELSE CallPipeline(r)
    /\ UNCHANGED <<service, phase, handle>>

\* GET /health.
health_check(r) ==
    /\ Dispatchable(r, "health")
    /\ Finish(r, Ok(HealthReturn))
    /\ UNCHANGED <<service, phase, handle>>

\* qa_pipeline(...) returns; answer_question builds and returns its dict.
QAPipelineReturns(r, result) ==
    /\ req[r].pc = "infer"
    /\ req[r].kind = "answer"
    /\ req' = [req EXCEPT ![r].pc = "done",
                          ![r].outcome = Some([kind |-> "return", value |-> result]),
                          ![r].sent = Append(@, Ok(AnswerReturn(req[r].args.question, result)))]
    /\ UNCHANGED <<service, phase, handle>>

\* summarizer(...) returns; summarize_text builds and returns its dict.
SummarizerReturns(r, result) ==
    /\ req[r].pc = "infer"
    /\ req[r].kind = "summarize"
    /\ req' = [req EXCEPT ![r].pc = "done",
                          ![r].outcome = Some([kind |-> "return", value |-> result]),
                          ![r].sent = Append(@, Ok(SummaryReturn(req[r].args.text, result)))]
    /\ UNCHANGED <<service, phase, handle>>

\* A handler that calls the pipeline again after a failure.
PipelineRaisesRetry(r, e) ==
    /\ req[r].pc = "infer"
    /\ IF req[r].calls < 2
       THEN req' = [req EXCEPT ![r].calls = @ + 1]
       ELSE req' = [req EXCEPT ![r].pc = "done",
                               ![r].outcome = Some([kind |-> "raise", value |-> e]),
                               ![r].sent = Append(@, Render(ExceptHandler(e)))]
    /\ UNCHANGED <<service, phase, handle>>

\* The pipeline call raises; the handler's except clause answers.
PipelineRaises(r, e) ==
    /\ req[r].pc = "infer"
    /\ req' = [req EXCEPT ![r].pc = "done",
                          ![r].outcome = Some([kind |-> "raise", value |-> e]),
                          ![r].sent = Append(@, Render(ExceptHandler(e)))]
    /\ UNCHANGED <<service, phase, handle>>

\* The pipeline call never returns: no timeout, no cancellation.
PipelineHangs(r) ==
    /\ req[r].pc = "infer"
    /\ req' = [req EXCEPT ![r].pc = "hung"]
    /\ UNCHANGED <<service, phase, handle>>

Next ==
    \/ LoadStep
    \/ \E e \in LoadErrors : LoadRaises(e)
    \/ \E r \in Slots, q \in Texts, c \in Texts : ArriveAnswer(r, q, c)
    \/ \E r \in Slots, t \in Texts, mx \in LengthFields, mn \in LengthFields :
          ArriveSummarize(r, t, mx, mn)
    \/ \E r \in Slots : ArriveHealth(r)
    \/ \E r \in Slots : answer_question(r)
    \/ \E r \in Slots : summarize_text(r)
    \/ \E r \in Slots : health_check(r)
    \/ \E r \in Slots, res \in QAResults : QAPipelineReturns(r, res)
    \/ \E r \in Slots, res \in SummaryResults : SummarizerReturns(r, res)
    \/ \E r \in Slots, e \in PipelineErrors : PipelineRaises(r, e)
    \/ \E r \in Slots : PipelineHangs(r)

Spec == Init /\ [][Next]_vars

(* --------------------------- claim helpers ---------------------------- *)

Done(r) == req[r].pc = "done"

Resp(r) == req[r].sent[1]

Busy(r) == req[r].pc \in {"infer", "hung"}

Handled(r) == req[r].pc \notin {"none", "queued"}

Returned(r) == req[r].outcome # None /\ Get(req[r].outcome).kind = "return"

Raised(r) == req[r].outcome # None /\ Get(req[r].outcome).kind = "raise"

EmptyAnswerField(r) ==
    req[r].kind = "answer" /\ (req[r].args.question = "" \/ req[r].args.context = "")

EmptySummaryText(r) == req[r].kind = "summarize" /\ req[r].args.text = ""

EmptyField(r) == EmptyAnswerField(r) \/ EmptySummaryText(r)

NullLength(r) ==
    /\ req[r].kind = "summarize"
    /\ req[r].args.text # ""
    /\ (req[r].args.max_length = None \/ req[r].args.min_length = None)

NotGreater(r) ==
    /\ req[r].kind = "summarize"
    /\ req[r].args.max_length # None
    /\ req[r].args.min_length # None
    /\ Get(req[r].args.max_length) <= Get(req[r].args.min_length)

(* ------------------------------- claims ------------------------------- *)

\* C1: every completed /answer request with an empty question or context, and
\* every completed /summarize request with an empty text, is answered with
\* status 400 and the fixed validation message.
C1_ValidationIs400 ==
    \A r \in Slots :
        Done(r) /\ EmptyField(r) =>
            /\ Len(req[r].sent) = 1
            /\ Resp(r).status_code = 400
            /\ Resp(r).body.detail =
                   IF req[r].kind = "answer"
                   THEN "Question and context are required"
                   ELSE "Text is required"

\* C2: a /summarize request with max_length <= min_length (equality included)
\* never reaches the summarizer and is answered with an error response.
C2_NotGreaterRejected ==
    \A r \in Slots :
        NotGreater(r) =>
            /\ req[r].calls = 0
            /\ ~Busy(r)
            /\ Done(r) => Resp(r).status_code # 200

\* C3: the pipeline is never invoked for a request whose question, context or
\* text is the empty string: such a request is never in a pipeline call, has
\* made no pipeline call and has no pipeline outcome.
C3_NoInferenceOnEmptyField ==
    \A r \in Slots :
        EmptyField(r) =>
            /\ req[r].calls = 0
            /\ ~Busy(r)
            /\ req[r].outcome = None

C3_Witness == \E r \in Slots : EmptyField(r) /\ Done(r)

\* C4: a request whose pipeline call returned normally is answered with 200,
\* status "success", its own question (or text) echoed unchanged, and the
\* pipeline's answer and score (or summary_text) as answer and confidence
\* (or summary).
C4_SuccessEchoesInput ==
    \A r \in Slots :
        Returned(r) =>
            /\ Done(r)
            /\ Len(req[r].sent) = 1
            /\ Resp(r).status_code = 200
            /\ Resp(r).body.status = "success"
            /\ req[r].kind = "answer" =>
                  /\ Resp(r).body.question = req[r].args.question
                  /\ Resp(r).body.answer = Get(req[r].outcome).value.answer
                  /\ Resp(r).body.confidence = Get(req[r].outcome).value.score
            /\ req[r].kind = "summarize" =>
                  /\ Resp(r).body.original_text = req[r].args.text
                  /\ Resp(r).body.summary = Get(req[r].outcome).value[1].summary_text

C4_Witness ==
    \E r \in Slots :
        /\ Returned(r)
        /\ req[r].kind = "answer"
        /\ req[r].args.question # req[r].args.context
        /\ Resp(r).body.question # Resp(r).body.answer

\* C5: a request whose pipeline call raised is answered, once, with status 500
\* and the exception's message as detail, and never with a success response.
C5_PipelineErrorIs500 ==
    \A r \in Slots :
        Raised(r) =>
            /\ Done(r)
            /\ Len(req[r].sent) = 1
            /\ Resp(r).status_code = 500
            /\ Resp(r).body = [detail |-> Get(req[r].outcome).value.args[1]]

C5_Witness == \E r \in Slots : Raised(r) /\ req[r].kind = "summarize"

\* C6: every completed GET /health is answered with 200 {status: "healthy"},
\* whatever happened to the other requests, and makes no pipeline call.
C6_HealthAlwaysHealthy ==
    \A r \in Slots :
        req[r].kind = "health" =>
            /\ req[r].calls = 0
            /\ ~Busy(r)
            /\ Done(r) => req[r].sent = <<[status_code |-> 200, body |-> [status |-> "healthy"]]>>

C6_Witness ==
    \E r, q \in Slots :
        /\ req[r].kind = "health" /\ Done(r)
        /\ Done(q) /\ Failed(q)

\* C7: a handled request implies a serving process with a loaded pipeline; a
\* process whose load raised has accepted and handled no request, and stays
\* crashed (no retry, no fallback).
C7_LoadFailureIsFatal ==
    /\ []((\E r \in Slots : Handled(r)) => phase = "serving" /\ handle = "loaded")
    /\ [](phase = "crashed" => handle = "unbound" /\ \A r \in Slots : req[r].pc = "none")
    /\ [][phase = "crashed" => phase' = "crashed"]_vars

C7_Witness == phase = "crashed"

\* C8: a request has at most one response and at most one pipeline call; a
\* completed one has exactly one response, either a success or an error; an
\* uncompleted one has none.
C8_OneOutcomeNoRetry ==
    \A r \in Slots :
        /\ req[r].calls <= 1
        /\ Len(req[r].sent) <= 1
        /\ Done(r) <=> Len(req[r].sent) = 1
        /\ Done(r) => (Resp(r).status_code = 200) # (Resp(r).status_code >= 400)
        /\ Raised(r) => req[r].calls = 1

C8_Witness == \E r \in Slots : Raised(r) /\ Done(r) /\ req[r].calls = 1

\* C9: at most one pipeline call is in progress; while one is, no other
\* request (GET /health included) is dispatched or completed; a request whose
\* pipeline call never returns has no response and never gets one.
C9_InferenceSerializes ==
    /\ [](Cardinality({r \in Slots : Busy(r)}) <= 1)
    /\ [](\A r \in Slots : Busy(r) => req[r].sent = <<>>)
    /\ [][\A r \in Slots : Busy(r) =>
             \A q \in Slots \ {r} :
                 \/ req'[q] = req[q]
                 \/ req[q].pc = "none" /\ req'[q].pc = "queued"]_vars
    /\ [][\A r \in Slots : req[r].pc = "hung" => req'[r] = req[r]]_vars

C9_Witness ==
    \E r, q \in Slots :
        /\ req[r].pc = "hung"
        /\ req[q].kind = "health"
        /\ req[q].pc = "queued"

\* C10: a /summarize request with non-empty text and a null max_length or
\* min_length never reaches the summarizer, and when completed is answered
\* with status 500.
C10_NullLengthIs500 ==
    \A r \in Slots :
        NullLength(r) =>
            /\ req[r].calls = 0
            /\ ~Busy(r)
            /\ req[r].outcome = None
            /\ Done(r) => Len(req[r].sent) = 1 /\ Resp(r).status_code = 500

C10_Witness ==
    \E r \in Slots : NullLength(r) /\ Done(r) /\ req[r].args.min_length = None

====
